---- MODULE Spec2Model ----
(***************************************************************************)
(* Model of the batch run of src/scripts/main.py: the extrema registry is  *)
(* downloaded, every coin of the registry is fetched, scanned, reconciled, *)
(* assembled and published in turn, and the registry is uploaded at the    *)
(* end.  Prices are small naturals, float('inf') is the greatest number of *)
(* the model, an absent dictionary key and unparseable text are negative   *)
(* markers.                                                                *)
(***************************************************************************)
EXTENDS Integers, Sequences, FiniteSets, TLC

\* ---- bounds -------------------------------------------------------------
MaxPrice == 2          \* prices are 0..MaxPrice
MaxLen   == 2          \* at most MaxLen kline records in one response
NumCoins == 2          \* at most NumCoins symbols in the registry
MaxRuns  == 2          \* number of batch runs in one behaviour

\* ---- encodings ----------------------------------------------------------
None == -1             \* dict.get() of an absent key / Python None
BAD  == -2             \* a kline field that int()/float() cannot parse
Inf  == MaxPrice + 1   \* float('inf'): greater than every price

Prices == 0 .. MaxPrice
NowStart == MaxLen + 1 \* the clock (seconds) starts after every candle timestamp

ALL_COINS_ATH_FILE == "all_coins_ath.json"

VARIABLES
    pc,                  \* position of main(): start, loop, fetched, reconciled,
                         \* assembled, done, fatal, crashed
    run,                 \* number of the batch run
    now,                 \* datetime.now(), in seconds: the runs are at least a
                         \* second apart, the steps of one run are not
    r2_registry,         \* the object ALL_COINS_ATH_FILE of the bucket
    all_coins_ath_data,  \* the registry in memory
    idx,                 \* position of the for loop in the registry's keys
    klines,              \* the response of get_kucoin_klines
    current_ath_value, current_ath_date_ms,
    current_atl_value, current_atl_date_ms,
    highest_price_in_fetched_klines, lowest_price_in_fetched_klines,
    chart_data_points,
    output_data,
    status,              \* per coin: Pending, Published or Skipped in this run
    faults,              \* failures the collaborators produced in this run
    put_log              \* the put_object calls that succeeded in this run

\* the bootstrap uploaders (scripts/crypto_drawdown_uploader.py and
\* crypto_drawdown_uploader.py): one pass of the loop body of their main()
VARIABLES
    script,              \* which of the two uploaders runs
    host_tz,             \* UTC offset (hours) of the local zone of the host
    upc,                 \* position: start, long, scanned, fetched, built,
                         \* published, upload_failed, skipped
    long_term_data,      \* 'data' of the 1day response, while it is in scope
    ath_val, ath_date_iso_str, atl_val, atl_date_iso_str,
    historical_prices,
    ticker_price,        \* current_price of main(): fetch_kucoin_ticker_price
    json_output

uploader == << script, host_tz, upc, long_term_data, ath_val, ath_date_iso_str,
               atl_val, atl_date_iso_str, historical_prices, ticker_price,
               json_output >>

vars == << pc, run, now, r2_registry, all_coins_ath_data, idx, klines,
           current_ath_value, current_ath_date_ms, current_atl_value,
           current_atl_date_ms, highest_price_in_fetched_klines,
           lowest_price_in_fetched_klines, chart_data_points, output_data,
           status, faults, put_log, uploader >>

locals == << klines, current_ath_value, current_ath_date_ms, current_atl_value,
             current_atl_date_ms, highest_price_in_fetched_klines,
             lowest_price_in_fetched_klines, chart_data_points, output_data >>

\* ---- data ---------------------------------------------------------------
EmptyDoc == [c \in {} |-> None]

\* a registry entry as it is seeded by hand; ath_value / atl_value may be absent
SeedEntry(ath, atl) ==
    [ ath_value |-> ath,
      ath_date_timestamp_ms |-> IF ath = None THEN None ELSE 1000,
      atl_value |-> atl,
      atl_date_timestamp_ms |-> IF atl = None THEN None ELSE 1000,
      source |-> "manual_initial" ]

SeedEntries == { SeedEntry(ath, atl) : ath \in Prices \cup {None},
                                       atl \in Prices \cup {None} }

\* kline records: [timestamp, open, close, high, low, ...] as text
Candle(t, c, h, l) == [ts |-> t, close |-> c, high |-> h, low |-> l]

\* candles as the exchange builds them: low <= close <= high, the close at one
\* of the two extremes
WellFormedCandles ==
    { k \in { Candle(0, c, h, l) : c \in Prices, h \in Prices, l \in Prices } :
        k.low <= k.high /\ k.close \in {k.low, k.high} }

\* what one record of a response holds besides its timestamp
KlineBodies ==
    WellFormedCandles
    \cup { Candle(0, BAD, BAD, BAD) }                 \* garbled or too short
    \cup { Candle(0, c, BAD, BAD) : c \in Prices }    \* high/low unparseable

\* a response is newest first: record i of n carries timestamp n - i + 1
KlineResponse(bodies) ==
    [ i \in 1 .. Len(bodies) |->
        [ bodies[i] EXCEPT !.ts = Len(bodies) - i + 1 ] ]

KlineResponses ==
    UNION { { KlineResponse(b) : b \in [1 .. n -> KlineBodies] } : n \in 0 .. MaxLen }

\* the same records in any order: record i carries timestamp order[i]
Orders(n) == { f \in [1 .. n -> 1 .. n] : \A i, j \in 1 .. n : f[i] = f[j] => i = j }

OrderedResponse(bodies, order) ==
    [ i \in 1 .. Len(bodies) |-> [ bodies[i] EXCEPT !.ts = order[i] ] ]

ResponsesOfLen(n) ==
    { OrderedResponse(b, f) : b \in [1 .. n -> KlineBodies], f \in Orders(n) }

RECURSIVE ResponsesUpTo(_)
ResponsesUpTo(n) ==
    IF n = 0 THEN { << >> } ELSE ResponsesOfLen(n) \cup ResponsesUpTo(n - 1)

AnyOrderResponses == ResponsesUpTo(MaxLen)

\* ---- helpers of main.py -------------------------------------------------
\* dict.get(key, default)
Get(v, default) == IF v = None THEN default ELSE v

\* klines.reverse()
Reverse(s) == [ i \in 1 .. Len(s) |-> s[Len(s) + 1 - i] ]

\* the try block of the loop: int(kline[0]), float(kline[2..4])
Parses(k) == k.ts # BAD /\ k.close # BAD /\ k.high # BAD /\ k.low # BAD

RECURSIVE ScanHighest_LastHigh(_, _)
ScanHighest_LastHigh(ks, h) ==
    IF ks = << >> THEN h
    ELSE LET k == Head(ks) IN
         IF Parses(k) THEN ScanHighest_LastHigh(Tail(ks), k.high)
                      ELSE ScanHighest_LastHigh(Tail(ks), h)

RECURSIVE ScanHighest(_, _)
ScanHighest(ks, h) ==
    IF ks = << >> THEN h
    ELSE LET k == Head(ks) IN
         IF Parses(k) /\ k.high > h THEN ScanHighest(Tail(ks), k.high)
                                    ELSE ScanHighest(Tail(ks), h)

RECURSIVE ScanLowest(_, _)
ScanLowest(ks, l) ==
    IF ks = << >> THEN l
    ELSE LET k == Head(ks) IN
         IF Parses(k) /\ k.low < l THEN ScanLowest(Tail(ks), k.low)
                                   ELSE ScanLowest(Tail(ks), l)

\* int(datetime.now().timestamp() * 1000)
NowMs == now * 1000

CoinKeys == DOMAIN all_coins_ath_data
NKeys == Cardinality(CoinKeys)
\* the keys are visited in their order in the document
coin_symbol == idx

SnapshotKey(c) == << "data", c >>

\* ---- calculations -------------------------------------------------------
\* n / d rounded to the nearest integer (d > 0)
RoundDiv(n, d) == IF n >= 0 THEN (2 * n + d) \div (2 * d)
                            ELSE -((2 * (-n) + d) \div (2 * d))

\* calculate_drawdown_percentage(price, ath): a percentage, as the fraction
\* num / den
calculate_drawdown_percentage_Clamped(current_price, ath_value) ==
    IF ath_value = 0 \/ current_price > ath_value THEN [num |-> 0, den |-> 1]
    ELSE [num |-> (ath_value - current_price) * 100, den |-> ath_value]

calculate_drawdown_percentage(current_price, ath_value) ==
    IF ath_value = 0 THEN [num |-> 0, den |-> 1]
    ELSE [num |-> (ath_value - current_price) * 100, den |-> ath_value]

\* round(x, 2), in hundredths of a percent
Round2_NonNegative(x) == IF x.num < 0 THEN 0 ELSE RoundDiv(x.num * 100, x.den)

Round2(x) == RoundDiv(x.num * 100, x.den)

\* the chart points of the scan loop, one per record that parses
RECURSIVE ChartOf(_, _)
ChartOf(ks, ath) ==
    IF ks = << >> THEN << >>
    ELSE LET k == Head(ks) IN
         IF Parses(k)
         THEN << [date |-> k.ts,
                  value |-> Round2(calculate_drawdown_percentage(k.close, ath))] >>
              \o ChartOf(Tail(ks), ath)
         ELSE ChartOf(Tail(ks), ath)

\* the conditions of the two reconcile steps
AthExceeds_Differs(highest, ath) == highest # ath
AthExceeds(highest, ath) == highest > ath
AtlExceeds(lowest, atl) == lowest > 0 /\ (lowest < atl \/ atl = Inf)

\* the timestamp main() stores with a new extremum
NewExtremumDateMs_OfCandle(ks) == ks[Len(ks)].ts * 1000
NewExtremumDateMs(ks) == NowMs

\* the per-coin document of step 7; NoOutput before it is built
OutputData(coin, price, ath, ath_ms, atl, atl_ms, chart) ==
    [ coin_symbol |-> coin,
      current_price |-> price,
      all_time_high |-> ath,
      all_time_high_date |-> ath_ms,
      all_time_low |-> atl,
      all_time_low_date |-> atl_ms,
      drawdown_percentage_current |->
          Round2(calculate_drawdown_percentage(price, ath)),
      chart_data |-> chart ]

NoOutput == OutputData(None, None, None, None, None, None, << >>)

\* ---- initial states -----------------------------------------------------
\* main.py runs on its own: no uploader is in progress
UploaderIdle ==
    /\ script = "none"
    /\ host_tz = 0
    /\ upc = "idle"
    /\ long_term_data = << >>
    /\ ath_val = None
    /\ ath_date_iso_str = None
    /\ atl_val = None
    /\ atl_date_iso_str = None
    /\ historical_prices = << >>
    /\ ticker_price = None
    /\ json_output = None

InitCommon ==
    /\ pc = "start"
    /\ run = 1
    /\ now = NowStart
    /\ all_coins_ath_data = EmptyDoc
    /\ idx = 0
    /\ klines = << >>
    /\ current_ath_value = 0
    /\ current_ath_date_ms = None
    /\ current_atl_value = Inf
    /\ current_atl_date_ms = None
    /\ highest_price_in_fetched_klines = 0
    /\ lowest_price_in_fetched_klines = Inf
    /\ chart_data_points = << >>
    /\ output_data = NoOutput
    /\ status = [c \in {} |-> "Pending"]
    /\ faults = {}
    /\ put_log = << >>
    /\ UploaderIdle

\* the bucket holds no registry, an empty one, or one coin seeded by hand
Init ==
    /\ InitCommon
    /\ \/ r2_registry = [exists |-> FALSE, doc |-> EmptyDoc]
       \/ r2_registry = [exists |-> TRUE, doc |-> EmptyDoc]
       \/ \E e \in SeedEntries :
             r2_registry = [exists |-> TRUE, doc |-> [c \in 1 .. 1 |-> e]]

\* the bucket holds no registry, an empty one, or 1..NumCoins coins with the
\* same seed
InitBatch ==
    /\ InitCommon
    /\ \/ r2_registry = [exists |-> FALSE, doc |-> EmptyDoc]
       \/ r2_registry = [exists |-> TRUE, doc |-> EmptyDoc]
       \/ \E n \in 1 .. NumCoins :
             r2_registry = [exists |-> TRUE,
                            doc |-> [c \in 1 .. n |-> SeedEntry(1, 1)]]

\* ---- actions ------------------------------------------------------------
ResetLocals ==
    /\ klines' = << >>
    /\ current_ath_value' = 0
    /\ current_ath_date_ms' = None
    /\ current_atl_value' = Inf
    /\ current_atl_date_ms' = None
    /\ highest_price_in_fetched_klines' = 0
    /\ lowest_price_in_fetched_klines' = Inf
    /\ chart_data_points' = << >>
    /\ output_data' = NoOutput

\* download_json_from_r2 + the emptiness test of main()
DownloadRegistry_NoEmptyTest ==
    /\ pc = "start"
    /\ LET data == IF r2_registry.exists THEN r2_registry.doc ELSE EmptyDoc IN
       /\ pc' = "loop"
       /\ all_coins_ath_data' = data
       /\ idx' = 1
       /\ status' = [c \in DOMAIN data |-> "Pending"]
    /\ UNCHANGED << run, now, r2_registry, locals, faults, put_log >>
    /\ UNCHANGED uploader

DownloadRegistry ==
    /\ pc = "start"
    /\ LET data == IF r2_registry.exists THEN r2_registry.doc ELSE EmptyDoc IN
       IF DOMAIN data = {}
       THEN /\ pc' = "fatal"
            /\ UNCHANGED << all_coins_ath_data, idx, status >>
       ELSE /\ pc' = "loop"
            /\ all_coins_ath_data' = data
            /\ idx' = 1
            /\ status' = [c \in DOMAIN data |-> "Pending"]
    /\ UNCHANGED << run, now, r2_registry, locals, faults, put_log >>
    /\ UNCHANGED uploader

\* download_json_from_r2: any other exception is re-raised
DownloadError ==
    /\ pc = "start"
    /\ pc' = "crashed"
    /\ faults' = faults \cup { << "download", 0 >> }
    /\ UNCHANGED << run, now, r2_registry, all_coins_ath_data, idx, locals,
                    status, put_log >>
    /\ UNCHANGED uploader

\* `continue`: the next key of the registry
SkipCoin_Break ==
    /\ pc' = "loop"
    /\ idx' = NKeys + 1
    /\ status' = [status EXCEPT ![coin_symbol] = "Skipped"]
    /\ ResetLocals

SkipCoin ==
    /\ pc' = "loop"
    /\ idx' = idx + 1
    /\ status' = [status EXCEPT ![coin_symbol] = "Skipped"]
    /\ ResetLocals

\* what is wrong with the data of a response that arrived
DataFaults(response, coin) ==
    (IF response = << >> THEN { << "empty", coin >> } ELSE {})
    \cup (IF \E i \in 1 .. Len(response) : ~Parses(response[i])
          THEN { << "malformed", coin >> } ELSE {})

\* the head of the loop body: the entry is read, the klines are fetched
FetchBody(response) ==
    /\ IF response = << >>
       THEN SkipCoin
       ELSE LET ath_info == all_coins_ath_data[coin_symbol] IN
            /\ pc' = "fetched"
            /\ klines' = response
            /\ current_ath_value' = Get(ath_info.ath_value, 0)
            /\ current_ath_date_ms' = ath_info.ath_date_timestamp_ms
            /\ current_atl_value' = Get(ath_info.atl_value, Inf)
            /\ current_atl_date_ms' = ath_info.atl_date_timestamp_ms
            /\ UNCHANGED << idx, status, highest_price_in_fetched_klines,
                            lowest_price_in_fetched_klines, chart_data_points,
                            output_data >>
    /\ UNCHANGED << run, now, r2_registry, all_coins_ath_data, put_log >>
    /\ UNCHANGED uploader

\* get_kucoin_klines answers with the 'data' of the response
FetchFrom(responses) ==
    /\ pc = "loop"
    /\ idx <= NKeys
    /\ \E response \in responses :
          /\ FetchBody(response)
          /\ faults' = faults \cup DataFaults(response, coin_symbol)

FetchKlines == FetchFrom(KlineResponses)

\* get_kucoin_klines catches a RequestException (timeout, HTTP error) and returns []
FetchFails ==
    /\ pc = "loop"
    /\ idx <= NKeys
    /\ FetchBody(<< >>)
    /\ faults' = faults \cup { << "fetch", coin_symbol >> }

\* steps 2b-4: klines.reverse(), the scan loop, the ATH and the ATL update
Reconcile ==
    /\ pc = "fetched"
    /\ LET ks       == Reverse(klines)
           highest  == ScanHighest(ks, 0)
           lowest   == ScanLowest(ks, Inf)
           ath_info == all_coins_ath_data[coin_symbol]
           new_ath  == AthExceeds(highest, current_ath_value)
           info1    == IF new_ath
                       THEN [ath_info EXCEPT
                               !.ath_value = highest,
                               !.ath_date_timestamp_ms = NewExtremumDateMs(ks),
                               !.source = "kucoin_updated_ath"]
                       ELSE ath_info
           new_atl  == AtlExceeds(lowest, current_atl_value)
           info2    == IF new_atl
                       THEN [info1 EXCEPT
                               !.atl_value = lowest,
                               !.atl_date_timestamp_ms = NewExtremumDateMs(ks),
                               !.source = "kucoin_updated_atl"]
                       ELSE info1
       IN
       /\ klines' = ks
       /\ highest_price_in_fetched_klines' = highest
       /\ lowest_price_in_fetched_klines' = lowest
       /\ chart_data_points' = ChartOf(ks, current_ath_value)
       /\ current_ath_value' = IF new_ath THEN highest ELSE current_ath_value
       /\ current_ath_date_ms' =
             IF new_ath THEN NewExtremumDateMs(ks) ELSE current_ath_date_ms
       /\ current_atl_value' = IF new_atl THEN lowest ELSE current_atl_value
       /\ current_atl_date_ms' =
             IF new_atl THEN NewExtremumDateMs(ks) ELSE current_atl_date_ms
       /\ all_coins_ath_data' = [all_coins_ath_data EXCEPT ![coin_symbol] = info2]
    /\ pc' = "reconciled"
    /\ UNCHANGED << run, now, r2_registry, idx, output_data, status, faults,
                    put_log >>
    /\ UNCHANGED uploader

\* float(klines[-1][2]) of step 5
ClosePriceParses(ks) == ks[Len(ks)].close # BAD

\* steps 5-7: the current price, the current drawdown, the document
Assemble_StaleAth ==
    /\ pc = "reconciled"
    /\ IF ClosePriceParses(klines)
       THEN /\ pc' = "assembled"
            /\ output_data' =
                 OutputData(coin_symbol, klines[Len(klines)].close,
                            Get(r2_registry.doc[coin_symbol].ath_value, 0),
                            current_ath_date_ms,
                            IF current_atl_value # Inf THEN current_atl_value
                                                       ELSE None,
                            current_atl_date_ms, chart_data_points)
       ELSE /\ pc' = "crashed"
            /\ UNCHANGED output_data
    /\ UNCHANGED << run, now, r2_registry, all_coins_ath_data, idx, klines,
                    current_ath_value, current_ath_date_ms, current_atl_value,
                    current_atl_date_ms, highest_price_in_fetched_klines,
                    lowest_price_in_fetched_klines, chart_data_points, status,
                    faults, put_log >>
    /\ UNCHANGED uploader

Assemble ==
    /\ pc = "reconciled"
    /\ IF ClosePriceParses(klines)
       THEN /\ pc' = "assembled"
            /\ output_data' =
                 OutputData(coin_symbol, klines[Len(klines)].close,
                            current_ath_value, current_ath_date_ms,
                            IF current_atl_value # Inf THEN current_atl_value
                                                       ELSE None,
                            current_atl_date_ms, chart_data_points)
       ELSE /\ pc' = "crashed"       \* ValueError / IndexError leaves main()
            /\ UNCHANGED output_data
    /\ UNCHANGED << run, now, r2_registry, all_coins_ath_data, idx, klines,
                    current_ath_value, current_ath_date_ms, current_atl_value,
                    current_atl_date_ms, highest_price_in_fetched_klines,
                    lowest_price_in_fetched_klines, chart_data_points, status,
                    faults, put_log >>
    /\ UNCHANGED uploader

\* step 8: upload_json_to_r2 of the document, then time.sleep and the next key
Publish ==
    /\ pc = "assembled"
    /\ pc' = "loop"
    /\ put_log' = Append(put_log, SnapshotKey(coin_symbol))
    /\ status' = [status EXCEPT ![coin_symbol] = "Published"]
    /\ idx' = idx + 1
    /\ ResetLocals
    /\ UNCHANGED << run, now, r2_registry, all_coins_ath_data, faults >>
    /\ UNCHANGED uploader

\* step 8: put_object raises, upload_json_to_r2 re-raises, main() does not catch
PublishFails ==
    /\ pc = "assembled"
    /\ pc' = "crashed"
    /\ faults' = faults \cup { << "publish", coin_symbol >> }
    /\ UNCHANGED << run, now, r2_registry, all_coins_ath_data, idx, locals,
                    status, put_log >>
    /\ UNCHANGED uploader

\* after the loop: upload_json_to_r2 of the registry
UploadRegistry_PublishedOnly ==
    /\ pc = "loop"
    /\ idx > NKeys
    /\ pc' = "done"
    /\ r2_registry' =
          [exists |-> TRUE,
           doc |-> [c \in { k \in CoinKeys : status[k] = "Published" }
                       |-> all_coins_ath_data[c]]]
    /\ put_log' = Append(put_log, << ALL_COINS_ATH_FILE, 0 >>)
    /\ UNCHANGED << run, now, all_coins_ath_data, idx, locals, status, faults >>
    /\ UNCHANGED uploader

UploadRegistry ==
    /\ pc = "loop"
    /\ idx > NKeys
    /\ pc' = "done"
    /\ r2_registry' = [exists |-> TRUE, doc |-> all_coins_ath_data]
    /\ put_log' = Append(put_log, << ALL_COINS_ATH_FILE, 0 >>)
    /\ UNCHANGED << run, now, all_coins_ath_data, idx, locals, status, faults >>
    /\ UNCHANGED uploader

UploadRegistryFails ==
    /\ pc = "loop"
    /\ idx > NKeys
    /\ pc' = "crashed"
    /\ faults' = faults \cup { << "publish", 0 >> }
    /\ UNCHANGED << run, now, r2_registry, all_coins_ath_data, idx, locals,
                    status, put_log >>
    /\ UNCHANGED uploader

\* the next scheduled run of the script: a fresh process over the same bucket
NextRun ==
    /\ pc \in {"done", "fatal", "crashed"}
    /\ run < MaxRuns
    /\ run' = run + 1
    /\ now' = now + 1
    /\ pc' = "start"
    /\ all_coins_ath_data' = EmptyDoc
    /\ idx' = 0
    /\ status' = [c \in {} |-> "Pending"]
    /\ faults' = {}
    /\ put_log' = << >>
    /\ ResetLocals
    /\ UNCHANGED r2_registry
    /\ UNCHANGED uploader

Next ==
    \/ DownloadRegistry
    \/ DownloadError
    \/ FetchKlines
    \/ FetchFails
    \/ Reconcile
    \/ Assemble
    \/ Publish
    \/ PublishFails
    \/ UploadRegistry
    \/ UploadRegistryFails
    \/ NextRun

Spec == Init /\ [][Next]_vars

\* one run of the script
NextBatch ==
    \/ DownloadRegistry
    \/ DownloadError
    \/ FetchKlines
    \/ FetchFails
    \/ Reconcile
    \/ Assemble
    \/ Publish
    \/ PublishFails
    \/ UploadRegistry
    \/ UploadRegistryFails

SpecBatch == InitBatch /\ [][NextBatch]_vars

\* one run over one coin whose candles arrive in any order
InitOneCoin ==
    /\ InitCommon
    /\ r2_registry = [exists |-> TRUE, doc |-> [c \in 1 .. 1 |-> SeedEntry(1, 1)]]

FetchAnyOrder == FetchFrom(AnyOrderResponses)

NextAnyOrder ==
    \/ DownloadRegistry
    \/ DownloadError
    \/ FetchAnyOrder
    \/ FetchFails
    \/ Reconcile
    \/ Assemble
    \/ Publish
    \/ PublishFails
    \/ UploadRegistry
    \/ UploadRegistryFails

SpecAnyOrder == InitOneCoin /\ [][NextAnyOrder]_vars

\* runs over one coin whose seed has ATH >= ATL or no ATL, and whose responses
\* hold well-formed candles only
WellFormedOfLen(n) == { KlineResponse(b) : b \in [1 .. n -> WellFormedCandles] }

RECURSIVE WellFormedUpTo(_)
WellFormedUpTo(n) ==
    IF n = 0 THEN { << >> } ELSE WellFormedOfLen(n) \cup WellFormedUpTo(n - 1)

WellFormedResponses == WellFormedUpTo(MaxLen)

InitWellFormed ==
    /\ InitCommon
    /\ \E e \in SeedEntries :
          /\ e.atl_value = None \/ e.ath_value >= e.atl_value
          /\ r2_registry = [exists |-> TRUE, doc |-> [c \in 1 .. 1 |-> e]]

FetchWellFormed == FetchFrom(WellFormedResponses)

NextWellFormed ==
    \/ DownloadRegistry
    \/ DownloadError
    \/ FetchWellFormed
    \/ FetchFails
    \/ Reconcile
    \/ Assemble
    \/ Publish
    \/ PublishFails
    \/ UploadRegistry
    \/ UploadRegistryFails
    \/ NextRun

SpecWellFormed == InitWellFormed /\ [][NextWellFormed]_vars

\* ---- the bootstrap uploaders --------------------------------------------
SCRIPTS == "scripts/crypto_drawdown_uploader.py"
ROOT    == "crypto_drawdown_uploader.py"

HOUR == 3600               \* seconds
DAY  == 24 * HOUR
TICK == 6 * HOUR           \* the grain of the clock and of the 1hour candles
WIB  == 7                  \* timezone(timedelta(hours=7))
HostZones == { -6, 0 }     \* local zones of the hosts that run the uploader
Today == MaxLen + 1        \* the 1day candles are of days 1..MaxLen
ClockTicks == 0 .. 3
RunInstants == { Today * DAY + q * TICK : q \in ClockTicks }

\* the variables of main.py while an uploader runs
main_vars == << pc, run, r2_registry, all_coins_ath_data, idx, locals, status >>

\* 'data' of a 1day response: well-formed candles of days 1..n, in any order
LongTermOfLen(n) ==
    { [ i \in 1 .. n |-> [ b[i] EXCEPT !.ts = f[i] * DAY ] ]
        : b \in [1 .. n -> WellFormedCandles], f \in Orders(n) }

RECURSIVE LongTermUpTo(_)
LongTermUpTo(n) ==
    IF n = 0 THEN { << >> } ELSE LongTermOfLen(n) \cup LongTermUpTo(n - 1)

LongTermResponses == LongTermUpTo(MaxLen)

\* a 1hour record, [timestamp, open, ...]: the uploaders read kline[0], kline[1]
HourCandle(t, o) == [ts |-> t, open |-> o]

\* 'data' of a 1hour response asked with to = now: candles of today at the
\* ticks 0..n-1, none later than now, in any order
ChartResponses ==
    UNION { { [ i \in 1 .. n |-> HourCandle(Today * DAY + (f[i] - 1) * TICK, o[i]) ]
                : o \in [1 .. n -> Prices], f \in Orders(n) }
            : n \in 0 .. MaxLen }

\* the smallest non-empty answers
OneDayResponses  == { << Candle(DAY, 1, 1, 1) >> }
OneHourResponses == { << HourCandle(Today * DAY, 1) >> }

\* lines 146-154: timestamp_ms = int(kline[0]) * 1000, 'high' = float(kline[2]),
\* 'low' = float(kline[3]); in a record [time, open, close, high, low, ...]
\* kline[2] is the close and kline[3] the high
LongTermKlines(data) ==
    [ i \in 1 .. Len(data) |->
        [ timestamp_ms |-> data[i].ts * 1000,
          high |-> data[i].close,
          low  |-> data[i].high ] ]

\* datetime.fromtimestamp(ms / 1000, tz=timezone.utc).isoformat(): the ISO text
\* of an instant, held as its whole seconds since the epoch
IsoUtc(timestamp_ms) == timestamp_ms \div 1000
\* datetime.fromisoformat(text).timestamp() * 1000
IsoToMs(iso) == iso * 1000

FetchResult(ath, ath_date, atl, atl_date) ==
    [ ath_val |-> ath, ath_date_iso_str |-> ath_date,
      atl_val |-> atl, atl_date_iso_str |-> atl_date ]

\* scripts/crypto_drawdown_uploader.py lines 166-176: the running scan
RECURSIVE ScanExtrema(_, _)
ScanExtrema(entries, acc) ==
    IF entries = << >> THEN acc
    ELSE LET e  == Head(entries)
             a1 == IF e.high > acc.ath_val
                   THEN [acc EXCEPT !.ath_val = e.high,
                                    !.ath_date_iso_str = IsoUtc(e.timestamp_ms)]
                   ELSE acc
             a2 == IF e.low < a1.atl_val
                   THEN [a1 EXCEPT !.atl_val = e.low,
                                   !.atl_date_iso_str = IsoUtc(e.timestamp_ms)]
                   ELSE a1
         IN ScanExtrema(Tail(entries), a2)

\* scripts/crypto_drawdown_uploader.py lines 144-190: a failed request, an error
\* answer and an empty 'data' all give 0.0 and the time of the run
ScanScripts(data, failed, now_s) ==
    IF failed \/ data = << >>
    THEN FetchResult(0, now_s, 0, now_s)
    ELSE LET ks == LongTermKlines(data) IN
         ScanExtrema(ks, FetchResult(ks[1].high, IsoUtc(ks[1].timestamp_ms),
                                     ks[1].low, IsoUtc(ks[1].timestamp_ms)))

Max(S) == CHOOSE x \in S : \A y \in S : y <= x
Min(S) == CHOOSE x \in S : \A y \in S : x <= y

\* crypto_drawdown_uploader.py lines 107-113: the date of the first entry whose
\* 'high' (or 'low') is the extremum, None when no entry has it
RECURSIVE FirstHighDate(_, _)
FirstHighDate(entries, v) ==
    IF entries = << >> THEN None
    ELSE IF Head(entries).high = v THEN IsoUtc(Head(entries).timestamp_ms)
    ELSE FirstHighDate(Tail(entries), v)

RECURSIVE FirstLowDate(_, _)
FirstLowDate(entries, v) ==
    IF entries = << >> THEN None
    ELSE IF Head(entries).low = v THEN IsoUtc(Head(entries).timestamp_ms)
    ELSE FirstLowDate(Tail(entries), v)

\* crypto_drawdown_uploader.py lines 74-121: max and min over the highs and the
\* lows together; a failed request, an error answer and an empty 'data' leave None
ScanRoot(data, failed) ==
    IF failed \/ data = << >>
    THEN FetchResult(None, None, None, None)
    ELSE LET ks == LongTermKlines(data)
             prices_for_ath_atl ==
                 { ks[i].high : i \in 1 .. Len(ks) } \cup { ks[i].low : i \in 1 .. Len(ks) }
             ath == Max(prices_for_ath_atl)
             atl == Min(prices_for_ath_atl)
         IN FetchResult(ath, FirstHighDate(ks, ath), atl, FirstLowDate(ks, atl))

\* lines 207-210: timestamp_ms = int(kline[0]) * 1000, price = float(kline[1])
KlinesDataForChart(data) ==
    [ i \in 1 .. Len(data) |->
        [ timestamp |-> data[i].ts * 1000, price |-> data[i].open ] ]

Abs(x) == IF x < 0 THEN -x ELSE x

\* Python's round(n / d) for n >= 0, d > 0: to the nearest, a half to the even
RoundHalfEven(n, d) ==
    LET q == n \div d
        r == n % d
    IN IF 2 * r < d THEN q
       ELSE IF 2 * r > d THEN q + 1
       ELSE IF q % 2 = 0 THEN q ELSE q + 1

\* get_days_difference(date, now): abs((dt2 - dt1).days) in scripts/, where
\* timedelta.days is the floor; round(abs(seconds) / 86400) in the other file
get_days_difference(scr, date_iso_str, now_s) ==
    IF scr = SCRIPTS
    THEN Abs((now_s - date_iso_str) \div DAY)
    ELSE RoundHalfEven(Abs(now_s - date_iso_str), DAY)

\* strftime of the calendar day of an instant in a zone: the number of the day
DayLabel(timestamp_ms, zone) == ((timestamp_ms \div 1000) + zone * HOUR) \div DAY

\* the zone of format_date_for_display / format_date_for_xaxis: WIB in scripts/,
\* datetime.fromtimestamp without tz, the zone of the host, in the other file
format_date_for_display(scr, tz, timestamp_ms) ==
    DayLabel(timestamp_ms, IF scr = SCRIPTS THEN WIB ELSE tz)

format_date_for_xaxis(scr, tz, timestamp_ms) ==
    DayLabel(timestamp_ms, IF scr = SCRIPTS THEN WIB ELSE tz)

\* list.sort(key=timestamp): stable, equal keys keep their order
RECURSIVE InsertByTimestamp(_, _)
InsertByTimestamp(sorted, x) ==
    IF sorted = << >> THEN << x >>
    ELSE IF Head(sorted).timestamp <= x.timestamp
         THEN << Head(sorted) >> \o InsertByTimestamp(Tail(sorted), x)
         ELSE << x >> \o sorted

RECURSIVE SortInto(_, _)
SortInto(sorted, rest) ==
    IF rest = << >> THEN sorted
    ELSE SortInto(InsertByTimestamp(sorted, Head(rest)), Tail(rest))

SortByTimestamp(s) == SortInto(<< >>, s)

\* lines 282-284: the spot point is appended, the list is sorted
WithSpotPoint_Overwrite(prices, now_s, price) ==
    LET sorted == SortByTimestamp(prices) IN
    [ sorted EXCEPT ![Len(sorted)] = [timestamp |-> now_s * 1000, price |-> price] ]

WithSpotPoint(prices, now_s, price) ==
    SortByTimestamp(Append(prices, [timestamp |-> now_s * 1000, price |-> price]))

\* lines 287-292
FormattedHistoricalData(scr, tz, prices) ==
    [ i \in 1 .. Len(prices) |->
        [ date  |-> format_date_for_xaxis(scr, tz, prices[i].timestamp),
          price |-> prices[i].price ] ]

\* lines 279 and 295-308: the document; None stands for 'N/A'
UploaderDocument(scr, tz, prices, res, price, now_s) ==
    [ ath |-> [ value |-> res.ath_val,
                date  |-> IF res.ath_date_iso_str # None
                          THEN format_date_for_display(scr, tz, IsoToMs(res.ath_date_iso_str))
                          ELSE None,
                daysAgo |-> IF res.ath_date_iso_str # None
                            THEN get_days_difference(scr, res.ath_date_iso_str, now_s)
                            ELSE None ],
      atl |-> [ value |-> res.atl_val,
                date  |-> IF res.atl_date_iso_str # None
                          THEN format_date_for_display(scr, tz, IsoToMs(res.atl_date_iso_str))
                          ELSE None ],
      currentPrice |-> price,
      historicalPrices |-> FormattedHistoricalData(scr, tz, prices),
      lastUpdated |-> now_s ]

UploaderKey == << "aprice", 1 >>

\* main.py does not run
MainIdle ==
    /\ pc = "idle"
    /\ run = 1
    /\ r2_registry = [exists |-> FALSE, doc |-> EmptyDoc]
    /\ all_coins_ath_data = EmptyDoc
    /\ idx = 0
    /\ klines = << >>
    /\ current_ath_value = 0
    /\ current_ath_date_ms = None
    /\ current_atl_value = Inf
    /\ current_atl_date_ms = None
    /\ highest_price_in_fetched_klines = 0
    /\ lowest_price_in_fetched_klines = Inf
    /\ chart_data_points = << >>
    /\ output_data = NoOutput
    /\ status = [c \in {} |-> "Pending"]

\* one of the two uploaders starts on a coin, on some host, at some instant
InitUploader ==
    /\ MainIdle
    /\ script \in { SCRIPTS, ROOT }
    /\ host_tz \in HostZones
    /\ now \in RunInstants
    /\ upc = "start"
    /\ long_term_data = << >>
    /\ ath_val = None
    /\ ath_date_iso_str = None
    /\ atl_val = None
    /\ atl_date_iso_str = None
    /\ historical_prices = << >>
    /\ ticker_price = None
    /\ json_output = None
    /\ faults = {}
    /\ put_log = << >>

LongTermFailed == << "long_term", 0 >> \in faults

\* fetch_kucoin_kline_data: the 1day request is answered
RequestLongTerm(responses) ==
    /\ upc = "start"
    /\ \E data \in responses : long_term_data' = data
    /\ upc' = "long"
    /\ UNCHANGED << main_vars, now, faults, put_log, script, host_tz, ath_val,
                    ath_date_iso_str, atl_val, atl_date_iso_str,
                    historical_prices, ticker_price, json_output >>

\* the 1day request raises a RequestException or is answered with an error code
LongTermFails ==
    /\ upc = "start"
    /\ long_term_data' = << >>
    /\ faults' = faults \cup { << "long_term", 0 >> }
    /\ upc' = "long"
    /\ UNCHANGED << main_vars, now, put_log, script, host_tz, ath_val,
                    ath_date_iso_str, atl_val, atl_date_iso_str,
                    historical_prices, ticker_price, json_output >>

\* fetch_kucoin_kline_data: ATH and ATL of the long history
ScanLongTerm ==
    /\ upc = "long"
    /\ LET res == IF script = SCRIPTS
                  THEN ScanScripts(long_term_data, LongTermFailed, now)
                  ELSE ScanRoot(long_term_data, LongTermFailed)
       IN /\ ath_val' = res.ath_val
          /\ ath_date_iso_str' = res.ath_date_iso_str
          /\ atl_val' = res.atl_val
          /\ atl_date_iso_str' = res.atl_date_iso_str
    /\ upc' = "scanned"
    /\ UNCHANGED << main_vars, now, faults, put_log, script, host_tz,
                    long_term_data, historical_prices, ticker_price, json_output >>

\* fetch_kucoin_kline_data returns; main() skips the coin on incomplete data
ReturnKlineData(prices) ==
    /\ historical_prices' = prices
    /\ long_term_data' = << >>
    /\ upc' = IF ath_val = None \/ atl_val = None \/ prices = << >>
              THEN "skipped" ELSE "fetched"
    /\ UNCHANGED << main_vars, now, put_log, script, host_tz, ath_val,
                    ath_date_iso_str, atl_val, atl_date_iso_str, ticker_price,
                    json_output >>

\* the 1hour request is answered
RequestChart(responses) ==
    /\ upc = "scanned"
    /\ \E data \in responses :
          /\ \A i \in 1 .. Len(data) : data[i].ts <= now
          /\ ReturnKlineData(KlinesDataForChart(data))
    /\ UNCHANGED faults

\* the 1hour request raises a RequestException or is answered with an error code
ChartFails ==
    /\ upc = "scanned"
    /\ ReturnKlineData(<< >>)
    /\ faults' = faults \cup { << "chart", 0 >> }

\* main(): the ticker price, the days since the ATH, the series, the document
BuildDocument ==
    /\ upc = "fetched"
    /\ \E price \in Prices :
          LET prices == WithSpotPoint(historical_prices, now, price) IN
          /\ ticker_price' = price
          /\ historical_prices' = prices
          /\ json_output' =
               UploaderDocument(script, host_tz, prices,
                                FetchResult(ath_val, ath_date_iso_str,
                                            atl_val, atl_date_iso_str),
                                price, now)
    /\ upc' = "built"
    /\ UNCHANGED << main_vars, now, faults, put_log, script, host_tz,
                    long_term_data, ath_val, ath_date_iso_str, atl_val,
                    atl_date_iso_str >>

\* fetch_kucoin_ticker_price returns None
TickerFails ==
    /\ upc = "fetched"
    /\ faults' = faults \cup { << "ticker", 0 >> }
    /\ upc' = "skipped"
    /\ UNCHANGED << main_vars, now, put_log, script, host_tz, long_term_data,
                    ath_val, ath_date_iso_str, atl_val, atl_date_iso_str,
                    historical_prices, ticker_price, json_output >>

\* upload_to_r2 of the document
Upload ==
    /\ upc = "built"
    /\ put_log' = Append(put_log, UploaderKey)
    /\ upc' = "published"
    /\ UNCHANGED << main_vars, now, faults, script, host_tz, long_term_data,
                    ath_val, ath_date_iso_str, atl_val, atl_date_iso_str,
                    historical_prices, ticker_price, json_output >>

\* upload_to_r2 raises; main() prints and goes on
UploadFails ==
    /\ upc = "built"
    /\ faults' = faults \cup { << "publish", 0 >> }
    /\ upc' = "upload_failed"
    /\ UNCHANGED << main_vars, now, put_log, script, host_tz, long_term_data,
                    ath_val, ath_date_iso_str, atl_val, atl_date_iso_str,
                    historical_prices, ticker_price, json_output >>

FetchLongTerm == RequestLongTerm(LongTermResponses)
FetchOneDay   == RequestLongTerm(OneDayResponses)
FetchChart    == RequestChart(ChartResponses)
FetchOneHour  == RequestChart(OneHourResponses)

\* an uploader over any long history and the smallest chart window
NextBootstrap ==
    \/ FetchLongTerm
    \/ LongTermFails
    \/ ScanLongTerm
    \/ FetchOneHour
    \/ ChartFails
    \/ BuildDocument
    \/ TickerFails
    \/ Upload
    \/ UploadFails

SpecBootstrap == InitUploader /\ [][NextBootstrap]_vars

\* an uploader over the smallest long history and any chart window
NextSeries ==
    \/ FetchOneDay
    \/ LongTermFails
    \/ ScanLongTerm
    \/ FetchChart
    \/ ChartFails
    \/ BuildDocument
    \/ TickerFails
    \/ Upload
    \/ UploadFails

SpecSeries == InitUploader /\ [][NextSeries]_vars

\* ---- vocabulary of the properties ---------------------------------------
ValidHighs(ks) == { ks[i].high : i \in { j \in 1 .. Len(ks) : Parses(ks[j]) } }
ValidLows(ks)  == { ks[i].low  : i \in { j \in 1 .. Len(ks) : Parses(ks[j]) } }
HasValid(ks)   == ValidHighs(ks) # {}
WindowMax(ks)  == CHOOSE h \in ValidHighs(ks) : \A x \in ValidHighs(ks) : x <= h
WindowMin(ks)  == CHOOSE l \in ValidLows(ks) : \A x \in ValidLows(ks) : l <= x

\* the entry of the coin that is being processed, before and after a step
Entry     == all_coins_ath_data[coin_symbol]
EntryNext == all_coins_ath_data'[coin_symbol]
\* an unset ATL counts as +infinity
AtlOf(e)  == Get(e.atl_value, Inf)
Reconciled(e) == e.source \in {"kucoin_updated_ath", "kucoin_updated_atl"}
ReconcileStep == pc = "fetched" /\ pc' = "reconciled"

MonotonicDocs(old, new) ==
    \A c \in DOMAIN old \cap DOMAIN new :
        /\ new[c].ath_value >= old[c].ath_value      \* an absent ATH is None = -1
        /\ AtlOf(new[c]) <= AtlOf(old[c])

\* C1: in every step of every run, for every asset, the ATH of the registry (in
\* memory and in the bucket) does not decrease and its ATL (unset = +infinity)
\* does not increase.
C1_MonotonicBaseline ==
    [][ /\ MonotonicDocs(all_coins_ath_data, all_coins_ath_data')
        /\ MonotonicDocs(r2_registry.doc, r2_registry.doc') ]_vars

\* a second run reconciled a window whose extrema lie strictly inside the
\* persisted ones, and the entry kept its values
C1_Witness ==
    /\ pc = "reconciled" /\ run = 2 /\ HasValid(klines)
    /\ WindowMax(klines) < r2_registry.doc[coin_symbol].ath_value
    /\ WindowMin(klines) > AtlOf(r2_registry.doc[coin_symbol])
    /\ Entry.ath_value = r2_registry.doc[coin_symbol].ath_value
    /\ Reconciled(r2_registry.doc[coin_symbol])

\* C2 as stated: when the window maximum exceeds the persisted ATH, or no ATH
\* is persisted, the reconciled entry has ATH = window maximum and a
\* reconciled source.
C2_Original ==
    [][ ( /\ ReconcileStep /\ HasValid(klines)
          /\ \/ Entry.ath_value = None
             \/ WindowMax(klines) > Entry.ath_value )
        => ( /\ EntryNext.ath_value = WindowMax(klines)
             /\ Reconciled(EntryNext) ) ]_vars

\* C2 amended: when the window maximum exceeds the persisted ATH, an absent
\* ATH counting as 0, the reconciled entry has ATH = window maximum and a
\* reconciled source.
C2_WindowMaxBecomesAth ==
    [][ ( /\ ReconcileStep /\ HasValid(klines)
          /\ WindowMax(klines) > Get(Entry.ath_value, 0) )
        => ( /\ EntryNext.ath_value = WindowMax(klines)
             /\ Reconciled(EntryNext) ) ]_vars

\* a full window whose maximum is not in its newest candle became the ATH
C2_Witness ==
    /\ pc = "reconciled" /\ Len(klines) = MaxLen /\ HasValid(klines)
    /\ Parses(klines[Len(klines)])
    /\ klines[Len(klines)].high < WindowMax(klines)
    /\ Entry.ath_value = WindowMax(klines)
    /\ Entry.ath_date_timestamp_ms = NowMs
    /\ Reconciled(Entry)

\* C3 as stated: the ATL is updated exactly when the window minimum is strictly
\* lower than the persisted ATL or the persisted ATL is absent; then it is the
\* window minimum, otherwise it is left as it was.
C3_Original ==
    [][ ( ReconcileStep /\ HasValid(klines) )
        => AtlOf(EntryNext) =
             IF WindowMin(klines) < AtlOf(Entry) \/ AtlOf(Entry) = Inf
             THEN WindowMin(klines) ELSE AtlOf(Entry) ]_vars

\* C4: a reconcile step that records a new ATH stores the clock of the run as
\* its timestamp.
C4_AthDateIsFetchTime ==
    [][ ( ReconcileStep /\ EntryNext.ath_value # Entry.ath_value )
        => EntryNext.ath_date_timestamp_ms = now * 1000 ]_vars

\* a new ATH was recorded and no candle of the window carries the stored instant
C4_Witness ==
    /\ pc = "reconciled" /\ HasValid(klines)
    /\ Entry.ath_value = highest_price_in_fetched_klines
    /\ Entry.source = "kucoin_updated_ath"
    /\ Entry.ath_date_timestamp_ms = now * 1000
    /\ \A i \in 1 .. Len(klines) : klines[i].ts * 1000 # Entry.ath_date_timestamp_ms

\* C5 as stated: a window without valid extrema neither fails the run nor
\* changes anything of the entry.
C5_Original ==
    [][ ( pc \in {"fetched", "reconciled"} /\ ~HasValid(klines) )
        => ( pc' # "crashed" /\ all_coins_ath_data' = all_coins_ath_data ) ]_vars

\* ---- the batch ----------------------------------------------------------
Terminal(c) == status[c] \in {"Published", "Skipped"}
RegistryKey == << ALL_COINS_ATH_FILE, 0 >>
RegistryPuts == { i \in 1 .. Len(put_log) : put_log[i] = RegistryKey }
SnapshotPut(c) == \E i \in 1 .. Len(put_log) : put_log[i] = SnapshotKey(c)
\* the run is over and the registry went out once, as the last upload
PublishedOnceAtEnd ==
    /\ Cardinality(RegistryPuts) = 1
    /\ put_log[Len(put_log)] = RegistryKey

\* C6 as stated: a failed upload of one asset's snapshot does not abort the run.
C6_Original ==
    \A c \in CoinKeys : << "publish", c >> \in faults => pc # "crashed"

\* C7 as stated: a run over a non-empty registry does not end before every
\* asset is Published or Skipped and the registry was uploaded exactly once, as
\* the last upload; the registry is never uploaded while an asset is pending.
C7_Original ==
    /\ ( pc \in {"done", "crashed"} /\ CoinKeys # {} )
          => ( (\A c \in CoinKeys : Terminal(c)) /\ PublishedOnceAtEnd )
    /\ ( RegistryPuts # {} ) => ( pc = "done" /\ \A c \in CoinKeys : Terminal(c) )

\* the only failure of the run is the candle fetch of coin a
OnlyFetchFailed(a) == faults = { << "fetch", a >> }

\* C8: when the candle fetch of one asset fails and nothing else goes wrong, the
\* run does not abort, that asset is Skipped without a snapshot, and the run
\* ends with every other asset Published and the registry uploaded once, last.
C8_FetchFailureSkipsOneAsset ==
    \A a \in CoinKeys :
        OnlyFetchFailed(a) =>
            /\ pc # "crashed"
            /\ status[a] = "Skipped"
            /\ ~SnapshotPut(a)
            /\ \A c \in CoinKeys \ {a} :
                  ((c < idx /\ pc = "loop") \/ pc = "done")
                      => (status[c] = "Published" /\ SnapshotPut(c))
            /\ pc = "done" => PublishedOnceAtEnd

\* the first coin's fetch failed, a later coin was published, the run is done
C8_Witness ==
    /\ pc = "done" /\ NKeys >= 2
    /\ OnlyFetchFailed(1)
    /\ status[1] = "Skipped" /\ status[2] = "Published"
    /\ put_log[Len(put_log)] = RegistryKey

\* C9: over a missing or empty registry a run that got the download's answer
\* stops as fatal, and no run uploads anything.
C9_MissingBaselinePublishesNothing ==
    ( pc # "start" /\ (~r2_registry.exists \/ DOMAIN r2_registry.doc = {}) )
        => /\ put_log = << >>
           /\ pc \in {"fatal", "crashed"}
           /\ pc = "crashed" => << "download", 0 >> \in faults

\* the bucket holds no registry and the run stopped as fatal
C9_Witness ==
    /\ pc = "fatal" /\ ~r2_registry.exists /\ put_log = << >> /\ faults = {}

\* C10 as stated: a window that holds a valid record never fails the run on a
\* malformed record; the only way to fail past the fetch is a failed upload.
C10_Original ==
    ( pc = "crashed" /\ klines # << >> /\ HasValid(klines) )
        => << "publish", coin_symbol >> \in faults

\* C11 as stated: while the asset being processed holds a non-empty window
\* without a single valid record, no step uploads a snapshot of that asset.
C11_Original ==
    [][ ( klines # << >> /\ ~HasValid(klines) )
        => put_log' # Append(put_log, SnapshotKey(coin_symbol)) ]_vars

\* ---- the chart series ---------------------------------------------------
\* the step that uploads the snapshot of the coin being processed
PublishStep == put_log' = Append(put_log, SnapshotKey(coin_symbol))

NonDecreasing(ts) == \A i \in 1 .. Len(ts) - 1 : ts[i] <= ts[i + 1]
Instants(points) == [ i \in 1 .. Len(points) |-> points[i].date ]

\* C12 as stated: whatever the order of the raw candles, the chart series of a
\* snapshot that is uploaded is non-decreasing in the candles' timestamps.
C12_Original ==
    [][ PublishStep => NonDecreasing(Instants(output_data.chart_data)) ]_vars

\* the step of an uploader that builds the series and the document
BuildStep == upc = "fetched" /\ upc' = "built"
Points(series) == { series[i] : i \in 1 .. Len(series) }

\* C13: the series an uploader builds holds every candle of the chart window
\* once, then the spot point (timestamp of the run, ticker price) as its last
\* entry: its length is the number of candles + 1, and the document has one
\* entry per point, also when the spot point falls on the display day of the
\* last candle.
C13_OnePointPerCandlePlusSpot ==
    [][ BuildStep =>
          LET n == Len(historical_prices) IN
          /\ Len(historical_prices') = n + 1
          /\ Points(SubSeq(historical_prices', 1, n)) = Points(historical_prices)
          /\ historical_prices'[n + 1] =
                [timestamp |-> now * 1000, price |-> ticker_price']
          /\ Len(json_output'.historicalPrices) = n + 1
          /\ \A i \in 1 .. n + 1 :
                json_output'.historicalPrices[i].price = historical_prices'[i].price
      ]_vars

\* a full chart window was built; the spot point is later than the last candle
\* and carries the same date label
C13_Witness ==
    /\ upc = "built"
    /\ Len(json_output.historicalPrices) = MaxLen + 1
    /\ historical_prices[MaxLen + 1].timestamp > historical_prices[MaxLen].timestamp
    /\ json_output.historicalPrices[MaxLen + 1].date
          = json_output.historicalPrices[MaxLen].date

\* C14 as stated: the series of a published document has no two points with
\* the same timestamp.
C14_Original ==
    upc = "published" =>
        \A i, j \in 1 .. Len(historical_prices) :
            historical_prices[i].timestamp = historical_prices[j].timestamp => i = j

\* ---- the drawdown -------------------------------------------------------
\* C15: for the price and the ATH of every document main() assembles,
\* calculate_drawdown_percentage is 0 when the ATH is 0 and (ath - price) / ath
\* * 100 otherwise, unclamped: 0 at price = ath, 50 at price = ath / 2, at most
\* 100, negative exactly when price > ath > 0; the document carries it rounded
\* to two decimals.
C15_DrawdownIsReference ==
    pc = "assembled" =>
        LET p == output_data.current_price
            a == output_data.all_time_high
            d == calculate_drawdown_percentage(p, a)
        IN /\ d.den > 0
           /\ a = 0 => d.num = 0
           /\ a # 0 => d.num * a = (a - p) * 100 * d.den
           /\ p = a => d.num = 0
           /\ (a > 0 /\ 2 * p = a) => d.num = 50 * d.den
           /\ (p >= 0 /\ a > 0) => d.num <= 100 * d.den
           /\ d.num < 0 <=> (p > a /\ a > 0)
           /\ output_data.drawdown_percentage_current =
                 IF a = 0 THEN 0 ELSE RoundDiv((a - p) * 10000, a)

\* a document whose price is half its ATH carries a drawdown of 50.00
C15_Witness ==
    /\ pc = "assembled"
    /\ output_data.all_time_high > 0
    /\ 2 * output_data.current_price = output_data.all_time_high
    /\ output_data.drawdown_percentage_current = 5000

\* ---- the bootstrap scan --------------------------------------------------
\* C16 as stated: an uploader whose 1day request failed uploads no document for
\* the coin.
C16_Original ==
    LongTermFailed => put_log = << >>

\* C17 as stated: the daysAgo of a document is the whole days of the time
\* between the ATH instant and the instant of the run, rounded down.
C17_Original ==
    ( upc = "built" /\ ath_date_iso_str # None ) =>
        json_output.ath.daysAgo = Abs(now - ath_date_iso_str) \div DAY

Chronological(data) == \A i \in 1 .. Len(data) - 1 : data[i].ts < data[i + 1].ts
Highs(data) == { data[i].high : i \in 1 .. Len(data) }
Lows(data)  == { data[i].low : i \in 1 .. Len(data) }
\* the timestamp of the earliest candle with the greatest high / the least low
EarliestMaxHigh(data) ==
    Min({ data[i].ts : i \in { j \in 1 .. Len(data) : data[j].high = Max(Highs(data)) } })
EarliestMinLow(data) ==
    Min({ data[i].ts : i \in { j \in 1 .. Len(data) : data[j].low = Min(Lows(data)) } })

\* C18 as stated: after the scan of a chronological history the ATH date is the
\* timestamp of the earliest candle whose high is the maximum high, the ATL
\* date that of the earliest candle whose low is the minimum low.
C18_Original ==
    ( upc = "scanned" /\ long_term_data # << >> /\ Chronological(long_term_data) )
        => /\ ath_date_iso_str = EarliestMaxHigh(long_term_data)
           /\ atl_date_iso_str = EarliestMinLow(long_term_data)

\* ---- the date labels -----------------------------------------------------
\* C19 as stated: the document an uploader builds is the one it would build on
\* a host of any other local zone, from the same answers at the same instant.
C19_Original ==
    upc = "built" =>
        \A tz \in HostZones :
            json_output =
                UploaderDocument(script, tz, historical_prices,
                                 FetchResult(ath_val, ath_date_iso_str,
                                             atl_val, atl_date_iso_str),
                                 ticker_price, now)

\* ---- the stale ATH -------------------------------------------------------
\* the ATH that is persisted in the bucket for the coin
PersistedAth == r2_registry.doc[coin_symbol].ath_value
\* an ATH is persisted, the price of the document exceeds it, no valid high does
PriceAboveStaleAth ==
    /\ pc = "assembled"
    /\ PersistedAth # None
    /\ output_data.current_price > PersistedAth
    /\ \A h \in ValidHighs(klines) : h <= PersistedAth

C21_Original ==
    [][ ReconcileStep =>
          /\ ( EntryNext.ath_date_timestamp_ms # Entry.ath_date_timestamp_ms )
                <=> ( EntryNext.ath_value > Entry.ath_value )
          /\ ( EntryNext.atl_date_timestamp_ms # Entry.atl_date_timestamp_ms )
                <=> ( EntryNext.atl_value # Entry.atl_value )
          /\ ( /\ EntryNext.ath_value = Entry.ath_value
               /\ EntryNext.atl_value = Entry.atl_value ) => EntryNext = Entry
      ]_vars

\* ---- the keys of the registry --------------------------------------------
\* C22: no step of a batch run adds or removes a key of the registry: the
\* document in memory has the symbols of the document that was downloaded, and
\* the document uploaded at the end has them too, whether the assets were
\* Published or Skipped.
C22_RegistryKeysPreserved ==
    [][ /\ DOMAIN r2_registry'.doc = DOMAIN r2_registry.doc
        /\ ( pc' \in {"loop", "fetched", "reconciled", "assembled", "done"} )
              => DOMAIN all_coins_ath_data' = DOMAIN r2_registry.doc
        /\ ( pc = "loop" /\ pc' = "done" )
              => ( /\ r2_registry'.doc = all_coins_ath_data
                   /\ \A c \in DOMAIN r2_registry.doc : Terminal(c) ) ]_vars

\* a run over several coins skipped the first, reconciled and published the
\* second, and uploaded the registry
C22_Witness ==
    /\ pc = "done" /\ NKeys >= 2
    /\ status[1] = "Skipped" /\ status[2] = "Published"
    /\ Reconciled(r2_registry.doc[2])
    /\ r2_registry.doc[1] = SeedEntry(1, 1)
    /\ DOMAIN r2_registry.doc = 1 .. NKeys

\* ---- the drawdown of well-formed windows ---------------------------------
\* every record of the window parses and closes at or below its high
WellFormedWindow(ks) ==
    \A i \in 1 .. Len(ks) : Parses(ks[i]) /\ ks[i].close <= ks[i].high
\* the ATH of the coin as it stood before the reconciliation of this run
AthBeforeRun == Get(r2_registry.doc[coin_symbol].ath_value, 0)
\* round((ath - price) / ath * 100, 2) in hundredths, 0 for ath = 0
DrawdownAgainst(price, ath) ==
    IF ath = 0 THEN 0 ELSE RoundDiv((ath - price) * 10000, ath)

\* C23: in every document main() assembles from a well-formed window the
\* current drawdown is >= 0 and all_time_high >= current_price, the ATH being
\* that of the reconciled entry (0 when it has none); every chart value is the
\* drawdown of its candle's close against the ATH as it stood before the run.
C23_CurrentDrawdownNonNegative ==
    ( pc = "assembled" /\ WellFormedWindow(klines) ) =>
        /\ output_data.drawdown_percentage_current >= 0
        /\ output_data.all_time_high >= output_data.current_price
        /\ output_data.all_time_high = Get(Entry.ath_value, 0)
        /\ Len(output_data.chart_data) = Len(klines)
        /\ \A i \in 1 .. Len(klines) :
              output_data.chart_data[i].value =
                  DrawdownAgainst(klines[i].close, AthBeforeRun)

\* a document of a well-formed window whose highs exceeded a persisted ATH above
\* 0: its current drawdown is not negative, one of its chart values is
C23_Witness ==
    /\ pc = "assembled" /\ WellFormedWindow(klines)
    /\ AthBeforeRun > 0
    /\ output_data.all_time_high > AthBeforeRun
    /\ output_data.drawdown_percentage_current >= 0
    /\ \E i \in 1 .. Len(output_data.chart_data) :
          output_data.chart_data[i].value < 0

\* ---- the two bootstrap scans ---------------------------------------------
\* C24 as stated: for a non-empty 1day history whose candles have low <= high,
\* the result of the scan that ran is the result of the running scan of
\* scripts/crypto_drawdown_uploader.py and also that of the max/min scan of
\* crypto_drawdown_uploader.py: the same ATH value, ATH date, ATL value and
\* ATL date.
C24_Original ==
    ( /\ upc = "scanned"
      /\ long_term_data # << >>
      /\ \A i \in 1 .. Len(long_term_data) :
            long_term_data[i].low <= long_term_data[i].high )
    => LET res == FetchResult(ath_val, ath_date_iso_str, atl_val, atl_date_iso_str)
       IN /\ res = ScanScripts(long_term_data, FALSE, now)
          /\ res = ScanRoot(long_term_data, FALSE)

\* ---- ATH and ATL of one entry --------------------------------------------
\* every entry of the document that has an ATL has an ATH that is not below it
AthNotBelowAtl(doc) ==
    \A c \in DOMAIN doc : doc[c].atl_value # None => doc[c].ath_value >= doc[c].atl_value

\* C25: when the entry starts with ATH >= ATL or without an ATL and every
\* window holds candles with low <= high only, then in every state of every
\* run, so after every reconcile step, an entry that has an ATL has ATH >= ATL,
\* in memory and in the bucket.
C25_AthNotBelowAtl ==
    /\ AthNotBelowAtl(all_coins_ath_data)
    /\ AthNotBelowAtl(r2_registry.doc)

\* the second run lowered an ATL that the first run had reconciled
C25_Witness ==
    /\ pc = "reconciled" /\ run = 2
    /\ r2_registry.doc[coin_symbol].atl_value # None
    /\ Entry.atl_value < r2_registry.doc[coin_symbol].atl_value
    /\ Entry.ath_value > Entry.atl_value
    /\ Entry.source = "kucoin_updated_atl"
    /\ Reconciled(r2_registry.doc[coin_symbol])

====
